---- MODULE Spec2Model ----
(***************************************************************************)
(* Guardian Protocol API (src/index.js): the request-orchestration layer   *)
(* of the three endpoints /analyze, /graph and /jeeter.                    *)
(*                                                                         *)
(* Conventions of the model                                                *)
(*  - A JavaScript string is a sequence of one-character strings, so that  *)
(*    trim(), toLowerCase() and Number() are computed character by         *)
(*    character.  Long fixed texts that the handlers only copy (an         *)
(*    explorer base URL, an error message) are kept as one element.        *)
(*  - A finite JavaScript number is an integer count of tenths: Num(5) is  *)
(*    the number 5 and the text "2.5" parses to 25.  NaN and the two       *)
(*    infinities are the values NaN, PosInf and NegInf below.              *)
(*  - A JavaScript value whose type varies (null or a number, ...) is a    *)
(*    tagged record, see Null, NumV, BoolV, StrV.                          *)
(*  - An async handler is cut at its awaits: one action runs the code from *)
(*    one await to the next, and the awaited collaborator's outcome        *)
(*    (a returned value or a thrown error) is chosen when the handler      *)
(*    resumes.                                                             *)
(***************************************************************************)
EXTENDS Integers, Sequences, FiniteSets, TLC

----------------------------------------------------------------------------
(* JavaScript values *)

\* req.query.<name> when the parameter is not in the query string
Undefined == <<"undefined">>

Null == [type |-> "null"]
NumV(n) == [type |-> "number", val |-> n]
BoolV(b) == [type |-> "boolean", val |-> b]
StrV(s) == [type |-> "string", val |-> s]

\* the integer literal n of the source, in tenths
Num(n) == n * 10

\* the results of Number(): NaN, the infinities, or a finite number of tenths
NaN == [kind |-> "NaN"]
PosInf == [kind |-> "Infinity"]
NegInf == [kind |-> "-Infinity"]
Finite(n) == [kind |-> "finite", val |-> n]

WhiteSpace == {" ", "\t"}
Digits == <<"0", "1", "2", "3", "4", "5", "6", "7", "8", "9">>
DigitChars == {Digits[i] : i \in 1..10}
DigitVal(c) == (CHOOSE i \in 1..10 : Digits[i] = c) - 1

UpperChars == <<"A", "B", "C", "D", "E", "F", "G", "H", "I", "J", "K", "L", "M",
                "N", "O", "P", "Q", "R", "S", "T", "U", "V", "W", "X", "Y", "Z">>
LowerChars == <<"a", "b", "c", "d", "e", "f", "g", "h", "i", "j", "k", "l", "m",
                "n", "o", "p", "q", "r", "s", "t", "u", "v", "w", "x", "y", "z">>

ToLowerChar(c) ==
    IF \E i \in 1..26 : UpperChars[i] = c
    THEN LowerChars[CHOOSE i \in 1..26 : UpperChars[i] = c]
    ELSE c

\* String.prototype.toLowerCase
toLowerCase(s) == [i \in 1..Len(s) |-> ToLowerChar(s[i])]

RECURSIVE TrimStart(_)
TrimStart(s) ==
    IF s # <<>> /\ Head(s) \in WhiteSpace THEN TrimStart(Tail(s)) ELSE s

RECURSIVE TrimEnd(_)
TrimEnd(s) ==
    IF s # <<>> /\ s[Len(s)] \in WhiteSpace
    THEN TrimEnd(SubSeq(s, 1, Len(s) - 1))
    ELSE s

\* String.prototype.trim
trim(s) == TrimEnd(TrimStart(s))

\* String(v || d): undefined and "" are falsy
StringOr(v, d) == IF v = Undefined \/ v = <<>> THEN d ELSE v

RECURSIVE DigitsValue(_)
DigitsValue(s) ==
    IF s = <<>> THEN 0
    ELSE 10 * DigitsValue(SubSeq(s, 1, Len(s) - 1)) + DigitVal(s[Len(s)])

AllDigits(s) == \A i \in 1..Len(s) : s[i] \in DigitChars

\* an unsigned decimal literal  digits | digits. | digits.d | .d  in tenths,
\* NaN when the text is none of these (texts with an exponent, a radix prefix
\* or a second fraction digit are not among the enumerated inputs)
UnsignedDecimal(s) ==
    IF s = <<>> THEN NaN
    ELSE IF AllDigits(s) THEN Finite(10 * DigitsValue(s))
    ELSE IF \E i \in 1..Len(s) : s[i] = "."
    THEN LET dot == CHOOSE i \in 1..Len(s) : s[i] = "."
             ip == SubSeq(s, 1, dot - 1)
             fp == SubSeq(s, dot + 1, Len(s))
         IN IF AllDigits(ip) /\ AllDigits(fp) /\ Len(fp) <= 1 /\ Len(ip) + Len(fp) > 0
            THEN Finite(10 * DigitsValue(ip) + DigitsValue(fp))
            ELSE NaN
    ELSE NaN

Infinity == <<"I", "n", "f", "i", "n", "i", "t", "y">>

\* Number(v) for v undefined or a string (StringToNumber): surrounding white
\* space is dropped, the empty text is 0, then an optionally signed decimal
\* literal or Infinity; anything else is NaN
Number(v) ==
    IF v = Undefined THEN NaN
    ELSE LET t == trim(v)
             signed == t # <<>> /\ Head(t) \in {"+", "-"}
             neg == t # <<>> /\ Head(t) = "-"
             u == IF signed THEN Tail(t) ELSE t
         IN IF t = <<>> THEN Finite(0)
            ELSE IF u = Infinity THEN (IF neg THEN NegInf ELSE PosInf)
            ELSE IF UnsignedDecimal(u).kind # "finite" THEN NaN
            ELSE IF neg THEN Finite(0 - UnsignedDecimal(u).val) ELSE UnsignedDecimal(u)

\* Number.isFinite
isFinite(n) == n.kind = "finite"

\* const num = (v, d) => { const n = Number(v); return Number.isFinite(n) ? n : d; }
num(v, d) == LET n == Number(v) IN IF isFinite(n) THEN n.val ELSE d

\* Math.max / Math.min on finite numbers (num() returns nothing else)
MathMax(a, b) == IF a >= b THEN a ELSE b
MathMin(a, b) == IF a <= b THEN a ELSE b

----------------------------------------------------------------------------
(* Collaborators: the chain registry and the Solana-address predicate *)

base == <<"b", "a", "s", "e">>
solana == <<"s", "o", "l", "a", "n", "a">>
tron == <<"t", "r", "o", "n">>

\* getChains(): chain key -> {kind, rpc, explorer, scanKey}.  The third entry
\* has a kind that is neither evm nor solana, the case lines 109 and 148 answer.
ChainKeys == {base, solana, tron}

getChains ==
    [k \in ChainKeys |->
        IF k = base
        THEN [kind |-> "evm", rpc |-> "https://rpc.base", explorer |-> <<"https://basescan.org">>,
              scanKey |-> "SCANKEY"]
        ELSE IF k = solana
        THEN [kind |-> "solana", rpc |-> "https://rpc.solana", explorer |-> <<"https://solscan.io">>,
              scanKey |-> ""]
        ELSE [kind |-> "tvm", rpc |-> "https://rpc.tron", explorer |-> <<"https://tronscan.org">>,
              scanKey |-> ""]]

\* chains[chainKey] is undefined, hence falsy, for a key that is not configured
HasChain(chainKey) == chainKey \in DOMAIN getChains

\* the base58 alphabet: letters and digits without 0, O, I and l
Base58 ==
    ({Digits[i] : i \in 2..10} \cup {UpperChars[i] : i \in 1..26} \cup {LowerChars[i] : i \in 1..26})
        \ {"O", "I", "l"}

\* looksLikeSolAddress: the shape predicate of a Solana address
looksLikeSolAddress(s) == s # <<>> /\ \A i \in 1..Len(s) : s[i] \in Base58

BIRDEYE == "BIRDEYE_API_KEY"

----------------------------------------------------------------------------
(* Inputs: the raw query values of a request, and collaborator outcomes *)

RawChain == {Undefined, <<"B", "a", "s", "e">>, solana, tron, <<"n", "o", "p", "e">>}
RawToken == {Undefined, <<" ">>, <<" ", "0", "x", "A", "b", " ">>}
RawCenter == {Undefined, <<" ">>, <<" ", "A", "b", "7">>, <<"A", "b", "L", "7">>, <<"n", "o", "-", "a">>}
RawFast == {Undefined, <<"1">>, <<" ", "1">>}
RawWindow == {Undefined, <<>>, <<"x">>, <<"-", "5">>, <<"2", ".", "5">>}
RawSpan == {Undefined, <<>>, <<"a", "b", "c">>, <<"0">>, <<"9", "9">>, <<"-", "5">>,
            <<"2", ".", "5">>, <<" ", "7", " ">>}
RawDelay == {Undefined, <<"x">>, <<"-", "5">>, <<"3", "0">>}

Queries ==
    [chain : RawChain, token : RawToken, center : RawCenter, fast : RawFast,
     window : RawWindow, span : RawSpan, delay : RawDelay]

\* a thrown Error: its message, possibly empty
Errors == {"upstream failed", ""}

\* the errors of the guarded calls, whose message only reaches console.error
LoggedErrors == {"upstream failed"}

UndefinedV == [type |-> "undefined"]
Truthy(v) == v.type = "string" /\ v.val # ""

\* readErc20Meta(): name and symbol may be missing
Metas ==
    [provider : {"provider"}, iface : {"iface"},
     name : {UndefinedV, StrV("Token")}, symbol : {UndefinedV, StrV("TKN")},
     decimals : {NumV(Num(18))}, totalSupply : {StrV("1000000")},
     owner : {StrV("0xowner")}, ownerRenounced : {BoolV(FALSE)}]

\* getDexScreenerPairs(): {pairs}; FirstPairs are the values of pairs?.[0]:
\* undefined (no pairs, or an empty list) or a pair whose baseToken is missing
\* or carries a name, a symbol, both or neither
BaseTokens ==
    {UndefinedV}
        \cup [name : {UndefinedV, StrV("DexName")}, symbol : {UndefinedV, StrV("DEX")}]
FirstPairs == {UndefinedV} \cup {[baseToken |-> b] : b \in BaseTokens}

\* approxTopHoldersPct(): a percentage
TopPcts == {NumV(Num(42))}

\* getContractSource(): {verified, owner}, or nothing at all
Sources ==
    {UndefinedV,
     [verified |-> BoolV(TRUE), owner |-> StrV("0xdeployer")],
     [verified |-> BoolV(FALSE), owner |-> Null]}

\* analyzeSolMint(): an AnalysisResponse-shaped payload, with or without ok
SolFacts == [chain |-> StrV("solana"), name |-> StrV("SolToken")]
SolOuts == {[ok |-> TRUE, facts |-> SolFacts], [facts |-> SolFacts]}

\* buildEvmGraph() and buildSolGraph(): a GraphResult
Graphs ==
    {[fromBlock |-> Null, toBlock |-> Null, nodes |-> <<>>, links |-> <<>>],
     [fromBlock |-> NumV(Num(100)), toBlock |-> NumV(Num(300)),
      nodes |-> <<"n1", "n2">>, links |-> <<"n1-n2">>]}

\* jeeterReport(): a JeeterResult
JeeterResults ==
    {[priceNow |-> NumV(Num(2)), fromBlock |-> NumV(Num(100)), toBlock |-> NumV(Num(300)),
      jeeters |-> <<"j1">>]}

----------------------------------------------------------------------------
(* State *)

VARIABLES
    pc,          \* where the handler is: "idle", the collaborator it awaits, or "done"
    route,       \* the endpoint serving the request: "/analyze", "/graph", "/jeeter"
    query,       \* req.query, the raw values
    chainKey, token, center, fast, blocks, span, delay,   \* the handler's constants
    meta,        \* the object readErc20Meta returned (enriched in place)
    top10Pct,    \* let top10Pct
    calls,       \* the collaborator calls of the request, in order, with outcomes
    responses,   \* what the handler sent through res, in order
    other        \* the other request of the process: suspended at an await while
                 \* this one runs, or served before this one

vars ==
    <<pc, route, query, chainKey, token, center, fast, blocks, span, delay,
      meta, top10Pct, calls, responses, other>>

\* the request in hand: the handler's position, its constants and variables,
\* and what it called and sent
Context ==
    [pc |-> pc, route |-> route, query |-> query, chainKey |-> chainKey, token |-> token,
     center |-> center, fast |-> fast, blocks |-> blocks, span |-> span, delay |-> delay,
     meta |-> meta, top10Pct |-> top10Pct, calls |-> calls, responses |-> responses]

NoQuery ==
    [chain |-> Undefined, token |-> Undefined, center |-> Undefined, fast |-> Undefined,
     window |-> Undefined, span |-> Undefined, delay |-> Undefined]

\* no request yet
NoRequest ==
    [pc |-> "idle", route |-> "none", query |-> NoQuery, chainKey |-> <<>>, token |-> <<>>,
     center |-> <<>>, fast |-> FALSE, blocks |-> 0, span |-> 0, delay |-> 0,
     meta |-> UndefinedV, top10Pct |-> Null, calls |-> <<>>, responses |-> <<>>]

Init ==
    /\ pc = "idle"
    /\ route = "none"
    /\ query = NoQuery
    /\ chainKey = <<>>
    /\ token = <<>>
    /\ center = <<>>
    /\ fast = FALSE
    /\ blocks = 0
    /\ span = 0
    /\ delay = 0
    /\ meta = UndefinedV
    /\ top10Pct = Null
    /\ calls = <<>>
    /\ responses = <<>>
    /\ other = NoRequest

----------------------------------------------------------------------------
(* Parameter normalisation, the first lines of each handler *)

\* String(req.query.chain || "base").toLowerCase()
chainKeyOf(q) == toLowerCase(StringOr(q.chain, base))

\* the token read without trim()
tokenOf_Untrimmed(q) == StringOr(q.token, <<>>)

\* String(req.query.token || "").trim()
tokenOf(q) == trim(StringOr(q.token, <<>>))

\* String(req.query.center || "").trim().toLowerCase()
centerOf(q) == toLowerCase(trim(StringOr(q.center, <<>>)))

\* fast compared after a trim()
fastOf_Trimmed(q) == trim(StringOr(q.fast, <<>>)) = <<"1">>

\* String(req.query.fast || "") === "1"
fastOf(q) == StringOr(q.fast, <<>>) = <<"1">>

\* num(req.query.window, 200)
blocksOf(q) == num(q.window, Num(200))

\* the span clamped from above only
spanOf_NoFloor(q) == MathMin(num(q.span, Num(5)), Num(10))

\* Math.max(1, Math.min(num(req.query.span, 5), 10))
spanOf(q) == MathMax(Num(1), MathMin(num(q.span, Num(5)), Num(10)))

\* Math.max(0, num(req.query.delay, 500))
delayOf(q) == MathMax(Num(0), num(q.delay, Num(500)))

----------------------------------------------------------------------------
(* Calls and responses *)

Pending == [status |-> "pending"]
Returned(v) == [status |-> "returned", value |-> v]
Threw(e) == [status |-> "threw", message |-> e]

\* the call log after a collaborator is invoked
Invoke(cs, fn, args) == Append(cs, [fn |-> fn, args |-> args, out |-> Pending])

\* the call log after the awaited call settles
Settle(out) == [calls EXCEPT ![Len(calls)].out = out]

\* res.status(status).json(body)
Send(status, body) == responses' = Append(responses, [status |-> status, body |-> body])

\* JSON.stringify leaves out the properties whose value is undefined
Json(o) == [k \in {f \in DOMAIN o : o[f] # UndefinedV} |-> o[k]]

\* {...a, ...b}: the properties of b override those of a
Spread(a, b) == [k \in DOMAIN a \cup DOMAIN b |-> IF k \in DOMAIN b THEN b[k] ELSE a[k]]

\* the fallback text sent whatever the error says
MessageOr_AlwaysFallback(e, fallback) == fallback

\* e.message || fallback
MessageOr(e, fallback) == IF e # "" THEN e ELSE fallback

\* the handler reads its parameters
Normalise(q, r) ==
    /\ route' = r
    /\ query' = q
    /\ chainKey' = chainKeyOf(q)
    /\ token' = tokenOf(q)
    /\ center' = IF r = "/graph" THEN centerOf(q) ELSE <<>>
    /\ fast' = IF r = "/analyze" THEN fastOf(q) ELSE FALSE
    /\ blocks' = blocksOf(q)
    /\ span' = spanOf(q)
    /\ delay' = delayOf(q)

Locals == <<route, query, chainKey, token, center, fast, blocks, span, delay>>

----------------------------------------------------------------------------
(* GET /analyze *)

ErrorBody(msg) == [ok |-> FALSE, error |-> msg]

\* the catch answering without res.status(500)
AnalyzeCatch_Status200(e) ==
    /\ Send(200, ErrorBody(MessageOr(e, "Analyze failed")))
    /\ pc' = "done"

\* the catch that logs the error and sends nothing
AnalyzeCatch_NoResponse(e) ==
    /\ pc' = "done"
    /\ UNCHANGED responses

\* the catch of the handler, lines 110-113
AnalyzeCatch(e) ==
    /\ Send(500, ErrorBody(MessageOr(e, "Analyze failed")))
    /\ pc' = "done"

\* lines 43-58 and 104-109: validation and dispatch, up to the first await
AnalyzeRequestOf(Q) ==
    /\ pc = "idle"
    /\ \E q \in Q :
        /\ q.center = Undefined
        /\ Normalise(q, "/analyze")
        /\ LET ck == chainKeyOf(q)
               tk == tokenOf(q)
           IN IF ~HasChain(ck)
              THEN /\ Send(400, ErrorBody("Unknown chain"))
                   /\ pc' = "done"
                   /\ UNCHANGED calls
              ELSE IF tk = <<>>
              THEN /\ Send(400, ErrorBody("Missing token/mint"))
                   /\ pc' = "done"
                   /\ UNCHANGED calls
              ELSE IF getChains[ck].kind = "evm"
              THEN /\ calls' = Invoke(calls, "readErc20Meta", [rpc |-> getChains[ck].rpc, token |-> tk])
                   /\ pc' = "readErc20Meta"
                   /\ UNCHANGED responses
              ELSE IF getChains[ck].kind = "solana"
              THEN /\ calls' = Invoke(calls, "analyzeSolMint",
                                      [rpc |-> getChains[ck].rpc, mint |-> tk,
                                       explorer |-> getChains[ck].explorer, birdeyeApiKey |-> BIRDEYE])
                   /\ pc' = "analyzeSolMint"
                   /\ UNCHANGED responses
              ELSE /\ Send(400, ErrorBody("Unsupported chain kind"))
                   /\ pc' = "done"
                   /\ UNCHANGED calls
    /\ UNCHANGED <<other, meta, top10Pct>>

AnalyzeRequest == AnalyzeRequestOf(Queries)

\* the estimator and the verification lookup started together
AfterEnrichment_Parallel(cs, m) ==
    /\ top10Pct' = Null
    /\ IF ~fast
       THEN /\ calls' = Invoke(Invoke(cs, "getContractSource",
                                      [chainKey |-> chainKey, token |-> token,
                                       scanKey |-> getChains[chainKey].scanKey]),
                               "approxTopHoldersPct",
                               [provider |-> m.provider, iface |-> m.iface, token |-> token,
                                decimals |-> m.decimals, blocks |-> blocks, span |-> span,
                                delay |-> delay])
            /\ pc' = "approxTopHoldersPct"
       ELSE /\ calls' = Invoke(cs, "getContractSource",
                               [chainKey |-> chainKey, token |-> token,
                                scanKey |-> getChains[chainKey].scanKey])
            /\ pc' = "getContractSource"
    /\ UNCHANGED responses

\* lines 70-84, after the enrichment: the estimator unless fast, else straight
\* to the verification lookup
AfterEnrichment(cs, m) ==
    /\ top10Pct' = Null
    /\ IF ~fast
       THEN /\ calls' = Invoke(cs, "approxTopHoldersPct",
                               [provider |-> m.provider, iface |-> m.iface, token |-> token,
                                decimals |-> m.decimals, blocks |-> blocks, span |-> span,
                                delay |-> delay])
            /\ pc' = "approxTopHoldersPct"
       ELSE /\ calls' = Invoke(cs, "getContractSource",
                               [chainKey |-> chainKey, token |-> token,
                                scanKey |-> getChains[chainKey].scanKey])
            /\ pc' = "getContractSource"
    /\ UNCHANGED responses

\* line 58 returns; line 61 decides on the enrichment
AnalyzeMetaReturns ==
    /\ pc = "readErc20Meta" /\ route = "/analyze"
    /\ \E m \in Metas :
        /\ meta' = m
        /\ IF ~Truthy(m.name) \/ ~Truthy(m.symbol)
           THEN /\ calls' = Invoke(Settle(Returned(m)), "getDexScreenerPairs", [token |-> token])
                /\ pc' = "getDexScreenerPairs"
                /\ UNCHANGED <<top10Pct, responses>>
           ELSE AfterEnrichment(Settle(Returned(m)), m)
    /\ UNCHANGED <<other, Locals, other>>

\* line 58 throws
AnalyzeMetaThrows ==
    /\ pc = "readErc20Meta" /\ route = "/analyze"
    /\ \E e \in Errors :
        /\ calls' = Settle(Threw(e))
        /\ AnalyzeCatch(e)
    /\ UNCHANGED <<other, Locals, meta, top10Pct>>

\* the name and the symbol of the pair copied whenever the pair has them
Enriched_Overwrites(m, p0) ==
    LET bt == IF p0 = UndefinedV THEN UndefinedV ELSE p0.baseToken
        nm == IF bt = UndefinedV THEN UndefinedV ELSE bt.name
        sy == IF bt = UndefinedV THEN UndefinedV ELSE bt.symbol
        m1 == IF Truthy(nm) THEN [m EXCEPT !.name = nm] ELSE m
    IN IF Truthy(sy) THEN [m1 EXCEPT !.symbol = sy] ELSE m1

\* lines 64-66: copy the name and the symbol the metadata lacks
Enriched(m, p0) ==
    LET bt == IF p0 = UndefinedV THEN UndefinedV ELSE p0.baseToken
        nm == IF bt = UndefinedV THEN UndefinedV ELSE bt.name
        sy == IF bt = UndefinedV THEN UndefinedV ELSE bt.symbol
        m1 == IF Truthy(nm) /\ ~Truthy(m.name) THEN [m EXCEPT !.name = nm] ELSE m
    IN IF Truthy(sy) /\ ~Truthy(m1.symbol) THEN [m1 EXCEPT !.symbol = sy] ELSE m1

\* line 63 returns
AnalyzePairsReturn ==
    /\ pc = "getDexScreenerPairs"
    /\ \E p0 \in FirstPairs :
        /\ meta' = Enriched(meta, p0)
        /\ AfterEnrichment(Settle(Returned(p0)), Enriched(meta, p0))
    /\ UNCHANGED <<other, Locals, other>>

\* line 63 throws: catch {} of line 67
AnalyzePairsThrow ==
    /\ pc = "getDexScreenerPairs"
    /\ \E e \in LoggedErrors : AfterEnrichment(Settle(Threw(e)), meta)
    /\ UNCHANGED <<other, Locals, meta>>

\* the estimator awaited without the try of line 72: its error reaches the
\* catch of the handler
AnalyzeTopSettles_Unguarded ==
    /\ pc = "approxTopHoldersPct"
    /\ \/ /\ \E v \in TopPcts :
               /\ top10Pct' = v
               /\ calls' = Invoke(Settle(Returned(v)), "getContractSource",
                                  [chainKey |-> chainKey, token |-> token,
                                   scanKey |-> getChains[chainKey].scanKey])
          /\ pc' = "getContractSource"
          /\ UNCHANGED responses
       \/ /\ \E e \in LoggedErrors :
               /\ calls' = Settle(Threw(e))
               /\ AnalyzeCatch(e)
          /\ top10Pct' = top10Pct
    /\ UNCHANGED <<other, Locals, meta>>

\* lines 73-84: the estimator settles, then the verification lookup is called
AnalyzeTopSettles ==
    /\ pc = "approxTopHoldersPct"
    /\ \/ \E v \in TopPcts :
            /\ top10Pct' = v
            /\ calls' = Invoke(Settle(Returned(v)), "getContractSource",
                               [chainKey |-> chainKey, token |-> token,
                                scanKey |-> getChains[chainKey].scanKey])
       \/ \E e \in LoggedErrors :
            /\ top10Pct' = top10Pct
            /\ calls' = Invoke(Settle(Threw(e)), "getContractSource",
                               [chainKey |-> chainKey, token |-> token,
                                scanKey |-> getChains[chainKey].scanKey])
    /\ pc' = "getContractSource"
    /\ UNCHANGED <<other, Locals, meta, responses>>

\* lines 88-101
AnalyzeBody(contractVerified, explorerOwner) ==
    [ok |-> TRUE,
     facts |-> Json([chain |-> StrV(chainKey), token |-> StrV(token),
                     name |-> meta.name, symbol |-> meta.symbol, decimals |-> meta.decimals,
                     totalSupply |-> meta.totalSupply, owner |-> meta.owner,
                     ownerRenounced |-> meta.ownerRenounced,
                     lp |-> [locked |-> Null, locker |-> Null, unlockDate |-> Null],
                     holders |-> [top10Pct |-> top10Pct]]),
     contractVerified |-> contractVerified,
     explorerOwner |-> explorerOwner,
     explorer |-> getChains[chainKey].explorer \o <<"/token/">> \o token,
     mode |-> IF fast THEN "fast" ELSE "standard",
     windowBlocks |-> blocks, span |-> span, delay |-> delay]

\* lines 82-101: the verification lookup settles and the response is sent.
\* Reading src.verified of a missing src throws inside the try of line 83.
AnalyzeSourceSettles ==
    /\ pc = "getContractSource"
    /\ \/ \E src \in Sources :
            /\ calls' = Settle(Returned(src))
            /\ IF src = UndefinedV
               THEN Send(200, AnalyzeBody(Null, Null))
               ELSE Send(200, AnalyzeBody(src.verified, src.owner))
       \/ \E e \in LoggedErrors :
            /\ calls' = Settle(Threw(e))
            /\ Send(200, AnalyzeBody(Null, Null))
    /\ pc' = "done"
    /\ UNCHANGED <<other, Locals, meta, top10Pct>>

\* lines 105-106
AnalyzeSolReturns ==
    /\ pc = "analyzeSolMint"
    /\ \E out \in SolOuts :
        /\ calls' = Settle(Returned(out))
        /\ Send(200, out)
    /\ pc' = "done"
    /\ UNCHANGED <<other, Locals, meta, top10Pct>>

\* line 105 throws
AnalyzeSolThrows ==
    /\ pc = "analyzeSolMint"
    /\ \E e \in Errors :
        /\ calls' = Settle(Threw(e))
        /\ AnalyzeCatch(e)
    /\ UNCHANGED <<other, Locals, meta, top10Pct>>

----------------------------------------------------------------------------
(* GET /graph *)

\* the catch of the handler, lines 149-152
GraphCatch(e) ==
    /\ Send(500, ErrorBody(MessageOr(e, "Graph failed")))
    /\ pc' = "done"

\* the address check left out
BadSolAddress_Unchecked(ce) == FALSE

\* line 143: !looksLikeSolAddress(center)
BadSolAddress(ce) == ~looksLikeSolAddress(ce)

\* lines 117-131 and 142-148: validation and dispatch, up to the first await
GraphRequestOf(Q) ==
    /\ pc = "idle"
    /\ \E q \in Q :
        /\ q.fast = Undefined
        /\ Normalise(q, "/graph")
        /\ LET ck == chainKeyOf(q)
               tk == tokenOf(q)
               ce == centerOf(q)
           IN IF ~HasChain(ck)
              THEN /\ Send(400, ErrorBody("Unknown chain"))
                   /\ pc' = "done"
                   /\ UNCHANGED calls
              ELSE IF tk = <<>> \/ ce = <<>>
              THEN /\ Send(400, ErrorBody("Missing token/center"))
                   /\ pc' = "done"
                   /\ UNCHANGED calls
              ELSE IF getChains[ck].kind = "evm"
              THEN /\ calls' = Invoke(calls, "readErc20Meta", [rpc |-> getChains[ck].rpc, token |-> tk])
                   /\ pc' = "readErc20Meta"
                   /\ UNCHANGED responses
              ELSE IF getChains[ck].kind = "solana"
              THEN IF BadSolAddress(ce)
                   THEN /\ Send(400, ErrorBody("Bad Sol address"))
                        /\ pc' = "done"
                        /\ UNCHANGED calls
                   ELSE /\ calls' = Invoke(calls, "buildSolGraph",
                                           [mint |-> tk, center |-> ce, birdeyeApiKey |-> BIRDEYE])
                        /\ pc' = "buildSolGraph"
                        /\ UNCHANGED responses
              ELSE /\ Send(400, ErrorBody("Unsupported chain kind"))
                   /\ pc' = "done"
                   /\ UNCHANGED calls
    /\ UNCHANGED <<other, meta, top10Pct>>

GraphRequest == GraphRequestOf(Queries)

\* line 132 returns; line 135 calls the graph builder
GraphMetaReturns ==
    /\ pc = "readErc20Meta" /\ route = "/graph"
    /\ \E m \in Metas :
        /\ meta' = m
        /\ calls' = Invoke(Settle(Returned(m)), "buildEvmGraph",
                           [provider |-> m.provider, token |-> token, center |-> center,
                            blocks |-> blocks, span |-> span, delay |-> delay])
    /\ pc' = "buildEvmGraph"
    /\ UNCHANGED <<other, Locals, top10Pct, responses>>

\* line 132 throws
GraphMetaThrows ==
    /\ pc = "readErc20Meta" /\ route = "/graph"
    /\ \E e \in Errors :
        /\ calls' = Settle(Threw(e))
        /\ GraphCatch(e)
    /\ UNCHANGED <<other, Locals, meta, top10Pct>>

\* line 133
EmptyGraph == [fromBlock |-> Null, toBlock |-> Null, nodes |-> <<>>, links |-> <<>>]

\* the response numbered by the requests served before it
GraphBody_Counting(graph) ==
    Spread(Spread([ok |-> TRUE], graph),
           [windowBlocks |-> blocks, span |-> span, delay |-> delay,
            served |-> Len(other.responses)])

\* line 139
GraphBody(graph) ==
    Spread(Spread([ok |-> TRUE], graph), [windowBlocks |-> blocks, span |-> span, delay |-> delay])

\* the graph builder awaited without the try of line 134: its error reaches
\* the catch of the handler
GraphBuildSettles_Unguarded ==
    /\ pc = "buildEvmGraph"
    /\ \/ \E g \in Graphs :
            /\ calls' = Settle(Returned(g))
            /\ Send(200, GraphBody(g))
            /\ pc' = "done"
       \/ \E e \in LoggedErrors :
            /\ calls' = Settle(Threw(e))
            /\ GraphCatch(e)
    /\ UNCHANGED <<other, Locals, meta, top10Pct>>

\* lines 133-139: the graph builder settles and the response is sent
GraphBuildSettles ==
    /\ pc = "buildEvmGraph"
    /\ \/ \E g \in Graphs :
            /\ calls' = Settle(Returned(g))
            /\ Send(200, GraphBody(g))
       \/ \E e \in LoggedErrors :
            /\ calls' = Settle(Threw(e))
            /\ Send(200, GraphBody(EmptyGraph))
    /\ pc' = "done"
    /\ UNCHANGED <<other, Locals, meta, top10Pct>>

\* line 145
SolGraphBody(g) == Spread([ok |-> TRUE], g)

\* lines 144-145
GraphSolReturns ==
    /\ pc = "buildSolGraph"
    /\ \E g \in Graphs :
        /\ calls' = Settle(Returned(g))
        /\ Send(200, SolGraphBody(g))
    /\ pc' = "done"
    /\ UNCHANGED <<other, Locals, meta, top10Pct>>

\* line 144 throws
GraphSolThrows ==
    /\ pc = "buildSolGraph"
    /\ \E e \in Errors :
        /\ calls' = Settle(Threw(e))
        /\ GraphCatch(e)
    /\ UNCHANGED <<other, Locals, meta, top10Pct>>

----------------------------------------------------------------------------
(* GET /jeeter *)

\* the catch of the handler, lines 178-181
JeeterCatch(e) ==
    /\ Send(500, ErrorBody(MessageOr(e, "Jeeter failed")))
    /\ pc' = "done"

\* only the missing chain refused
NotEvm_MissingOnly(ck) == ~HasChain(ck)

\* line 166: !chain || chain.kind !== "evm"
NotEvm(ck) == ~HasChain(ck) \/ getChains[ck].kind # "evm"

\* lines 156-168: the chain check, then the metadata read
JeeterRequestOf(Q) ==
    /\ pc = "idle"
    /\ \E q \in Q :
        /\ q.fast = Undefined
        /\ q.center = Undefined
        /\ Normalise(q, "/jeeter")
        /\ LET ck == chainKeyOf(q)
               tk == tokenOf(q)
           IN IF NotEvm(ck)
              THEN /\ Send(400, ErrorBody("EVM only"))
                   /\ pc' = "done"
                   /\ UNCHANGED calls
              ELSE /\ calls' = Invoke(calls, "readErc20Meta", [rpc |-> getChains[ck].rpc, token |-> tk])
                   /\ pc' = "readErc20Meta"
                   /\ UNCHANGED responses
    /\ UNCHANGED <<other, meta, top10Pct>>

JeeterRequest == JeeterRequestOf(Queries)

\* line 168 returns; line 172 calls the report
JeeterMetaReturns ==
    /\ pc = "readErc20Meta" /\ route = "/jeeter"
    /\ \E m \in Metas :
        /\ meta' = m
        /\ calls' = Invoke(Settle(Returned(m)), "jeeterReport",
                           [chainKey |-> chainKey, token |-> token, provider |-> m.provider,
                            decimals |-> m.decimals, blocks |-> blocks, span |-> span,
                            delay |-> delay])
    /\ pc' = "jeeterReport"
    /\ UNCHANGED <<other, Locals, top10Pct, responses>>

\* line 168 throws
JeeterMetaThrows ==
    /\ pc = "readErc20Meta" /\ route = "/jeeter"
    /\ \E e \in Errors :
        /\ calls' = Settle(Threw(e))
        /\ JeeterCatch(e)
    /\ UNCHANGED <<other, Locals, meta, top10Pct>>

\* line 170
EmptyReport == [priceNow |-> Null, fromBlock |-> Null, toBlock |-> Null, jeeters |-> <<>>]

\* the report sent without the window parameters
JeeterBody_NoEcho(r) == Spread([ok |-> TRUE], r)

\* line 177
JeeterBody(r) ==
    Spread(Spread([ok |-> TRUE], r), [windowBlocks |-> blocks, span |-> span, delay |-> delay])

\* lines 170-177: the report settles and the response is sent
JeeterReportSettles ==
    /\ pc = "jeeterReport"
    /\ \/ \E r \in JeeterResults :
            /\ calls' = Settle(Returned(r))
            /\ Send(200, JeeterBody(r))
       \/ \E e \in LoggedErrors :
            /\ calls' = Settle(Threw(e))
            /\ Send(200, JeeterBody(EmptyReport))
    /\ pc' = "done"
    /\ UNCHANGED <<other, Locals, meta, top10Pct>>

----------------------------------------------------------------------------

\* the handler has returned; the request and its locals are gone
Close ==
    /\ pc = "done"
    /\ pc' = "idle"
    /\ route' = "none"
    /\ query' = NoQuery
    /\ chainKey' = <<>>
    /\ token' = <<>>
    /\ center' = <<>>
    /\ fast' = FALSE
    /\ blocks' = 0
    /\ span' = 0
    /\ delay' = 0
    /\ meta' = UndefinedV
    /\ top10Pct' = Null
    /\ calls' = <<>>
    /\ responses' = <<>>
    /\ other' = other

Next ==
    \/ AnalyzeRequest
    \/ AnalyzeMetaReturns
    \/ AnalyzeMetaThrows
    \/ AnalyzePairsReturn
    \/ AnalyzePairsThrow
    \/ AnalyzeTopSettles
    \/ AnalyzeSourceSettles
    \/ AnalyzeSolReturns
    \/ AnalyzeSolThrows
    \/ GraphRequest
    \/ GraphMetaReturns
    \/ GraphMetaThrows
    \/ GraphBuildSettles
    \/ GraphSolReturns
    \/ GraphSolThrows
    \/ JeeterRequest
    \/ JeeterMetaReturns
    \/ JeeterMetaThrows
    \/ JeeterReportSettles
    \/ Close

Spec == Init /\ [][Next]_vars

\* an awaited collaborator call settles: it returns or it throws
Settles ==
    \/ AnalyzeMetaReturns
    \/ AnalyzeMetaThrows
    \/ AnalyzePairsReturn
    \/ AnalyzePairsThrow
    \/ AnalyzeTopSettles
    \/ AnalyzeSourceSettles
    \/ AnalyzeSolReturns
    \/ AnalyzeSolThrows
    \/ GraphMetaReturns
    \/ GraphMetaThrows
    \/ GraphBuildSettles
    \/ GraphSolReturns
    \/ GraphSolThrows
    \/ JeeterMetaReturns
    \/ JeeterMetaThrows
    \/ JeeterReportSettles

\* every invoked collaborator eventually returns or fails, and the handler
\* resumes when it does
SpecLive == Spec /\ WF_vars(Settles)

----------------------------------------------------------------------------
(* One request after another: the finished request is remembered in other *)

\* the request in hand becomes the one of context c
Install(c) ==
    /\ pc' = c.pc
    /\ route' = c.route
    /\ query' = c.query
    /\ chainKey' = c.chainKey
    /\ token' = c.token
    /\ center' = c.center
    /\ fast' = c.fast
    /\ blocks' = c.blocks
    /\ span' = c.span
    /\ delay' = c.delay
    /\ meta' = c.meta
    /\ top10Pct' = c.top10Pct
    /\ calls' = c.calls
    /\ responses' = c.responses

\* the handler has returned and the process waits for the next request; the
\* finished request is kept for comparison, or an earlier one is
Retire ==
    /\ pc = "done"
    /\ other' \in {Context, other}
    /\ Install(NoRequest)

\* the /graph requests that are repeated
RepeatQueries ==
    [chain : {Undefined, solana}, token : {<<" ", "0", "x", "A", "b", " ">>},
     center : {<<" ", "A", "b", "7">>, <<"n", "o", "-", "a">>}, fast : {Undefined},
     window : {Undefined, <<"-", "5">>}, span : {Undefined, <<"9", "9">>},
     delay : {Undefined}]

RepeatGraphRequest == GraphRequestOf(RepeatQueries)

NextRepeat ==
    \/ RepeatGraphRequest
    \/ GraphMetaReturns
    \/ GraphMetaThrows
    \/ GraphBuildSettles
    \/ GraphSolReturns
    \/ GraphSolThrows
    \/ Retire

SpecRepeat == Init /\ [][NextRepeat]_vars

----------------------------------------------------------------------------
(* Two requests in flight: while one awaits, the handler of the other runs *)

\* top10Pct kept in one variable of the module instead of one per call of the
\* handler
Switch_SharedTop10Pct ==
    /\ other' = Context
    /\ Install([other EXCEPT !.top10Pct = top10Pct])

\* the event loop turns to the other request: the one in hand stays suspended
\* at its await (or finished, or not yet arrived) with its own constants and
\* variables, and the other's are in scope again
Switch ==
    /\ other' = Context
    /\ Install(other)

\* the requests served together
ConcQueries ==
    [chain : {Undefined, solana}, token : {<<" ", "0", "x", "A", "b", " ">>},
     center : {Undefined, <<" ", "A", "b", "7">>}, fast : {Undefined, <<"1">>},
     window : {Undefined}, span : {Undefined}, delay : {Undefined}]

ConcAnalyzeRequest == AnalyzeRequestOf(ConcQueries)
ConcGraphRequest == GraphRequestOf(ConcQueries)
ConcJeeterRequest == JeeterRequestOf(ConcQueries)

NextConc ==
    \/ ConcAnalyzeRequest
    \/ ConcGraphRequest
    \/ ConcJeeterRequest
    \/ Settles
    \/ Close
    \/ Switch

SpecConc == Init /\ [][NextConc]_vars

----------------------------------------------------------------------------
(* Vocabulary of the properties *)

Done == pc = "done"
OnEvm == HasChain(chainKey) /\ getChains[chainKey].kind = "evm"
OnSolana == HasChain(chainKey) /\ getChains[chainKey].kind = "solana"

\* the response of the request, once sent
Sent == Len(responses) > 0
Resp == responses[1]

\* the calls of the request to the collaborator fn
CallsOf(fn) == {i \in 1..Len(calls) : calls[i].fn = fn}
Invoked(fn) == CallsOf(fn) # {}
Failed(fn) == \E i \in CallsOf(fn) : calls[i].out.status = "threw"
Succeeded(fn) == \E i \in CallsOf(fn) : calls[i].out.status = "returned"
ResultOf(fn) == calls[CHOOSE i \in CallsOf(fn) : TRUE].out.value

\* o.k, undefined when o has no property k
Get(o, k) == IF k \in DOMAIN o THEN o[k] ELSE UndefinedV

----------------------------------------------------------------------------
(* C1 *)

\* C1: an /analyze request on an EVM chain whose metadata read succeeded is
\* answered 200 with ok = true whatever optional steps failed; a failed
\* estimator leaves holders.top10Pct null, a failed verification lookup leaves
\* contractVerified and explorerOwner null, a failed enrichment leaves the
\* primary name and symbol, and every other field is what the request and the
\* primary metadata determine.
C1_OptionalFailuresKeep200 ==
    (Done /\ route = "/analyze" /\ Succeeded("readErc20Meta")) =>
        LET primary == ResultOf("readErc20Meta")
            b == Resp.body
        IN /\ Len(responses) = 1
           /\ Resp.status = 200
           /\ b.ok = TRUE
           /\ Failed("approxTopHoldersPct") => b.facts.holders.top10Pct = Null
           /\ Failed("getContractSource") =>
                b.contractVerified = Null /\ b.explorerOwner = Null
           /\ Failed("getDexScreenerPairs") =>
                /\ Get(b.facts, "name") = primary.name
                /\ Get(b.facts, "symbol") = primary.symbol
           /\ b.facts.chain = StrV(chainKey)
           /\ b.facts.token = StrV(token)
           /\ b.facts.decimals = primary.decimals
           /\ b.facts.totalSupply = primary.totalSupply
           /\ b.facts.owner = primary.owner
           /\ b.facts.ownerRenounced = primary.ownerRenounced
           /\ b.facts.lp = [locked |-> Null, locker |-> Null, unlockDate |-> Null]
           /\ b.explorer = getChains[chainKey].explorer \o <<"/token/">> \o token
           /\ b.mode = (IF query.fast = <<"1">> THEN "fast" ELSE "standard")
           /\ b.windowBlocks = blocks /\ b.span = span /\ b.delay = delay

\* all three optional steps failed and the request was still answered 200
C1_Witness ==
    /\ Done /\ route = "/analyze" /\ Succeeded("readErc20Meta")
    /\ Failed("getDexScreenerPairs")
    /\ Failed("approxTopHoldersPct")
    /\ Failed("getContractSource")
    /\ Sent /\ Resp.status = 200

----------------------------------------------------------------------------
(* C2 *)

\* C2: on an EVM chain, /analyze with fast exactly "1" never invokes the
\* estimator and its 200 response has holders.top10Pct = null and mode "fast";
\* with any other raw value of fast the 200 response has mode "standard" and the
\* estimator was invoked exactly once, after the metadata read returned.
C2_FastSkipsEstimator ==
    (route = "/analyze" /\ OnEvm) =>
        /\ Cardinality(CallsOf("approxTopHoldersPct")) <= 1
        /\ \A i \in CallsOf("approxTopHoldersPct") :
              \E j \in 1..(i - 1) :
                  calls[j].fn = "readErc20Meta" /\ calls[j].out.status = "returned"
        /\ query.fast = <<"1">> =>
              /\ ~Invoked("approxTopHoldersPct")
              /\ (Sent /\ Resp.status = 200) =>
                    /\ Resp.body.facts.holders.top10Pct = Null
                    /\ Resp.body.mode = "fast"
        /\ (query.fast # <<"1">> /\ Sent /\ Resp.status = 200) =>
              /\ Resp.body.mode = "standard"
              /\ Cardinality(CallsOf("approxTopHoldersPct")) = 1

\* a request with fast=1 answered 200 in mode "fast"
C2_Witness ==
    /\ route = "/analyze" /\ OnEvm /\ query.fast = <<"1">>
    /\ Sent /\ Resp.status = 200 /\ Resp.body.mode = "fast"

----------------------------------------------------------------------------
(* C3 *)

\* C3: /analyze validates before it calls anything: a chain key that is not in
\* the registry is answered 400 "Unknown chain" with or without a token, a
\* known chain with a token that is empty after trimming is answered 400
\* "Missing token/mint", and in both cases no collaborator is invoked.
C3_ValidationFirst ==
    (route = "/analyze") =>
        LET key == toLowerCase(StringOr(query.chain, base))
            tok == trim(StringOr(query.token, <<>>))
        IN /\ key \notin ChainKeys =>
                /\ responses = <<[status |-> 400, body |-> [ok |-> FALSE, error |-> "Unknown chain"]]>>
                /\ calls = <<>>
           /\ (key \in ChainKeys /\ tok = <<>>) =>
                /\ responses = <<[status |-> 400, body |-> [ok |-> FALSE, error |-> "Missing token/mint"]]>>
                /\ calls = <<>>

\* an unknown chain with a token, and a known chain with a blank token
C3_Witness ==
    /\ route = "/analyze" /\ Done
    /\ \/ chainKey \notin ChainKeys /\ token # <<>>
       \/ chainKey \in ChainKeys /\ query.token = <<" ">>

----------------------------------------------------------------------------
(* C4 *)

\* the identifiers of the request as submitted, trimmed
GivenToken == trim(StringOr(query.token, <<>>))
GivenCenter == trim(StringOr(query.center, <<>>))

\* C4: at every endpoint a request that omits a required identifier (the
\* token, and at /graph the center) is answered 400 and reaches no
\* collaborator; in particular /jeeter on an EVM chain with an empty token.
C4_MissingIdentifierIs400 ==
    (route # "none" /\ (GivenToken = <<>> \/ (route = "/graph" /\ GivenCenter = <<>>))) =>
        /\ calls = <<>>
        /\ Sent => Resp.status = 400

----------------------------------------------------------------------------
(* C5 *)

BadSolAddressResponse ==
    [status |-> 400, body |-> [ok |-> FALSE, error |-> "Bad Sol address"]]

----------------------------------------------------------------------------
(* C6 *)

\* C6: a /jeeter request whose chain resolves to a kind other than evm is
\* answered 400 "EVM only", and neither the metadata reader nor the jeeter
\* report is invoked.
C6_JeeterEvmOnly ==
    LET key == toLowerCase(StringOr(query.chain, base))
    IN (route = "/jeeter" /\ key \in ChainKeys /\ getChains[key].kind # "evm") =>
          /\ responses = <<[status |-> 400, body |-> [ok |-> FALSE, error |-> "EVM only"]]>>
          /\ ~Invoked("readErc20Meta")
          /\ ~Invoked("jeeterReport")

\* /jeeter on the Solana chain, answered
C6_Witness == route = "/jeeter" /\ OnSolana /\ Done /\ Sent

----------------------------------------------------------------------------
(* C7 *)

\* C7: every 200 response of the three endpoints has ok = true at its top
\* level, whatever payload the collaborator returned.
C7_SuccessHasOk ==
    \A i \in 1..Len(responses) :
        responses[i].status = 200 =>
            "ok" \in DOMAIN responses[i].body /\ responses[i].body.ok = TRUE

----------------------------------------------------------------------------
(* C8 *)

----------------------------------------------------------------------------
(* C9 *)

\* C9: every 200 response of /graph echoes the effective windowBlocks, span
\* and delay, on an EVM chain and on a Solana chain alike.
C9_GraphEchoesWindow ==
    (route = "/graph" /\ Sent /\ Resp.status = 200) =>
        /\ {"windowBlocks", "span", "delay"} \subseteq DOMAIN Resp.body
        /\ Resp.body.windowBlocks = blocks
        /\ Resp.body.span = span
        /\ Resp.body.delay = delay

----------------------------------------------------------------------------
(* C10 *)

\* the characters of a decimal numeral
NumeralChars == DigitChars \cup {"+", "-", "."}

\* a raw value with a character that no numeral has
NonNumeric(v) == v # Undefined /\ \E i \in 1..Len(v) : v[i] \notin NumeralChars \cup WhiteSpace

\* C10: at each endpoint, whatever the raw span (absent, non-numeric, zero,
\* negative, above 10), the effective span is a number in [1,10]: 5 when span
\* is absent or non-numeric, 1 for span=0, 10 for span=99 (a blank span counts
\* as the number 0 and gives 1); that value is the one passed to the
\* collaborators and echoed, and normalisation always completes.
C10_SpanInRange ==
    (route # "none") =>
        /\ span \in Int
        /\ Num(1) <= span /\ span <= Num(10)
        /\ (query.span = Undefined \/ NonNumeric(query.span)) => span = Num(5)
        /\ query.span = <<"0">> => span = Num(1)
        /\ query.span = <<"9", "9">> => span = Num(10)
        /\ query.span = <<"-", "5">> => span = Num(1)
        /\ (query.span # Undefined /\ trim(query.span) = <<>>) => span = Num(1)
        /\ \A i \in 1..Len(calls) :
              "span" \in DOMAIN calls[i].args => calls[i].args.span = span
        /\ (Sent /\ "span" \in DOMAIN Resp.body) => Resp.body.span = span

\* span=0 answered 200 with the clamped value 1 echoed
C10_Witness ==
    /\ route = "/jeeter" /\ query.span = <<"0">>
    /\ Sent /\ Resp.status = 200 /\ Resp.body.span = Num(1)

----------------------------------------------------------------------------
(* C11 *)

\* a number of tenths that is a whole number
IsInteger(n) == n % 10 = 0

\* C11: whatever the raw window and delay, the effective windowBlocks and
\* delay are non-negative integers: 200 for a non-numeric window, 500 for a
\* non-numeric delay, and a negative window or delay is floored at 0.
C11_WindowDelayNonNegativeIntegers ==
    (route # "none") =>
        /\ blocks >= 0 /\ IsInteger(blocks)
        /\ delay >= 0 /\ IsInteger(delay)
        /\ NonNumeric(query.window) => blocks = Num(200)
        /\ NonNumeric(query.delay) => delay = Num(500)
        /\ query.window = <<"-", "5">> => blocks = Num(0)
        /\ query.delay = <<"-", "5">> => delay = Num(0)

----------------------------------------------------------------------------
(* C12 *)

\* the calls whose failure the handlers do not guard
MandatoryCalls == {"readErc20Meta", "analyzeSolMint", "buildSolGraph"}

\* the text each catch falls back to
FallbackText ==
    IF route = "/analyze" THEN "Analyze failed"
    ELSE IF route = "/graph" THEN "Graph failed"
    ELSE "Jeeter failed"

\* C12: when a mandatory call fails (the metadata read on EVM, the Solana
\* analyzer in /analyze, the Solana graph builder in /graph) the request ends
\* with 500 and {ok:false, error:<the failure's message>} (the endpoint's
\* fallback text when the error has no message), no collaborator is invoked
\* after the failure, and the call is made once only.
C12_MandatoryFailureIs500 ==
    \A fn \in MandatoryCalls :
        Failed(fn) =>
            LET i == CHOOSE j \in CallsOf(fn) : calls[j].out.status = "threw"
                msg == calls[i].out.message
            IN /\ i = Len(calls)
               /\ Cardinality(CallsOf(fn)) = 1
               /\ Done
               /\ Len(responses) = 1
               /\ Resp.status = 500
               /\ DOMAIN Resp.body = {"ok", "error"}
               /\ Resp.body.ok = FALSE
               /\ msg # "" => Resp.body.error = msg
               /\ msg = "" => Resp.body.error = FallbackText

\* the Solana graph builder failed with a message and the request ended 500
C12_Witness ==
    /\ Failed("buildSolGraph")
    /\ calls[Len(calls)].out.message # ""
    /\ Sent /\ Resp.status = 500

----------------------------------------------------------------------------
(* C13 *)

\* C13: on an EVM chain, when the metadata read of a /graph request succeeded
\* and the graph builder failed, the answer is 200 with ok = true, fromBlock =
\* null, toBlock = null, nodes = [], links = [] and the echoed window.
C13_GraphFailureIsEmptyGraph ==
    (route = "/graph" /\ OnEvm /\ Succeeded("readErc20Meta") /\ Failed("buildEvmGraph")) =>
        responses =
            <<[status |-> 200,
               body |-> [ok |-> TRUE, fromBlock |-> Null, toBlock |-> Null,
                         nodes |-> <<>>, links |-> <<>>,
                         windowBlocks |-> blocks, span |-> span, delay |-> delay]]>>

\* the graph builder failed after a successful metadata read
C13_Witness ==
    /\ route = "/graph" /\ OnEvm
    /\ Succeeded("readErc20Meta") /\ Failed("buildEvmGraph")
    /\ Done /\ Sent

----------------------------------------------------------------------------
(* C14 *)

\* C14: on an EVM chain, a /jeeter request whose metadata read succeeded is
\* answered 200 with windowBlocks, span and delay echoed whether the report
\* succeeded or failed; when it failed the payload is exactly priceNow = null,
\* fromBlock = null, toBlock = null, jeeters = [].
C14_JeeterEchoesWindow ==
    (route = "/jeeter" /\ Succeeded("readErc20Meta") /\ Done) =>
        /\ Len(responses) = 1
        /\ Resp.status = 200
        /\ {"windowBlocks", "span", "delay"} \subseteq DOMAIN Resp.body
        /\ Resp.body.windowBlocks = blocks
        /\ Resp.body.span = span
        /\ Resp.body.delay = delay
        /\ Failed("jeeterReport") =>
              Resp.body = [ok |-> TRUE, priceNow |-> Null, fromBlock |-> Null,
                           toBlock |-> Null, jeeters |-> <<>>,
                           windowBlocks |-> blocks, span |-> span, delay |-> delay]
        /\ Succeeded("jeeterReport") =>
              \A k \in DOMAIN ResultOf("jeeterReport") :
                  Resp.body[k] = ResultOf("jeeterReport")[k]

\* the report failed after a successful metadata read
C14_Witness ==
    /\ route = "/jeeter" /\ Succeeded("readErc20Meta") /\ Failed("jeeterReport")
    /\ Done /\ Sent

----------------------------------------------------------------------------
(* C15 *)

\* the request in hand repeats the remembered one: the same /graph query, and
\* collaborators that gave the same data
RepeatsOther ==
    /\ Done /\ route = "/graph"
    /\ other.pc = "done" /\ other.route = "/graph"
    /\ other.query = query
    /\ Len(other.calls) = Len(calls)
    /\ \A i \in 1..Len(calls) :
          /\ other.calls[i].fn = calls[i].fn
          /\ other.calls[i].out.status = calls[i].out.status
          /\ other.calls[i].out = calls[i].out

----------------------------------------------------------------------------
(* C16 *)

\* the place of a collaborator in the order of /analyze on an EVM chain
Rank(fn) ==
    IF fn = "readErc20Meta" THEN 1
    ELSE IF fn = "getDexScreenerPairs" THEN 2
    ELSE IF fn = "approxTopHoldersPct" THEN 3
    ELSE IF fn = "getContractSource" THEN 4
    ELSE 0

\* C16: within an /analyze request on an EVM chain the collaborator calls are
\* made in the order metadata read, enrichment, top-holder estimate,
\* verification lookup; a call starts only when the calls before it have
\* returned or failed, so at most one is in flight; and the 200 response is
\* sent only after the verification lookup has settled.
C16_AnalyzeCallsSequential ==
    (route = "/analyze" /\ OnEvm) =>
        /\ \A i \in 1..Len(calls) : Rank(calls[i].fn) > 0
        /\ \A i, j \in 1..Len(calls) : i < j => Rank(calls[i].fn) < Rank(calls[j].fn)
        /\ \A i \in 1..(Len(calls) - 1) : calls[i].out.status # "pending"
        /\ Sent => \A i \in 1..Len(calls) : calls[i].out.status # "pending"
        /\ (Sent /\ Resp.status = 200) =>
              /\ calls[Len(calls)].fn = "getContractSource"
              /\ calls[1].fn = "readErc20Meta"

\* all four calls were made, one after the other, and the response was sent
C16_Witness ==
    /\ route = "/analyze" /\ OnEvm /\ Done
    /\ Len(calls) = 4
    /\ Sent /\ Resp.status = 200

----------------------------------------------------------------------------
(* C17 *)

\* C17: the enrichment of /analyze makes at most one secondary lookup, and
\* only when the primary metadata lacks a name or a symbol; it never replaces
\* a name or symbol the primary metadata has; a missing one is taken from the
\* first pair when that pair has it; and when the lookup fails or returns no
\* pair, the name and symbol of the response are those of the primary metadata.
C17_EnrichmentFillsOnlyMissing ==
    (route = "/analyze" /\ Succeeded("readErc20Meta")) =>
        LET primary == ResultOf("readErc20Meta")
            looked == Succeeded("getDexScreenerPairs")
            p0 == ResultOf("getDexScreenerPairs")
            noPair == looked /\ p0 = UndefinedV
            given == IF looked /\ p0 # UndefinedV THEN p0.baseToken ELSE UndefinedV
            answered == Sent /\ Resp.status = 200
        IN /\ Cardinality(CallsOf("getDexScreenerPairs")) <= 1
           /\ Invoked("getDexScreenerPairs") =>
                 ~Truthy(primary.name) \/ ~Truthy(primary.symbol)
           /\ Truthy(primary.name) => meta.name = primary.name
           /\ Truthy(primary.symbol) => meta.symbol = primary.symbol
           /\ (~Truthy(primary.name) /\ given # UndefinedV /\ Truthy(given.name)) =>
                 meta.name = given.name
           /\ (~Truthy(primary.symbol) /\ given # UndefinedV /\ Truthy(given.symbol)) =>
                 meta.symbol = given.symbol
           /\ (Failed("getDexScreenerPairs") \/ noPair \/ ~Invoked("getDexScreenerPairs")) =>
                 meta = primary
           /\ answered =>
                 /\ Get(Resp.body.facts, "name") = meta.name
                 /\ Get(Resp.body.facts, "symbol") = meta.symbol

\* the primary metadata had a name and no symbol, the pair had both, and the
\* response carries the primary name and the symbol of the pair
C17_Witness ==
    /\ route = "/analyze" /\ Done /\ Succeeded("readErc20Meta")
    /\ ResultOf("readErc20Meta").name = StrV("Token")
    /\ ResultOf("readErc20Meta").symbol = UndefinedV
    /\ Succeeded("getDexScreenerPairs")
    /\ ResultOf("getDexScreenerPairs") =
          [baseToken |-> [name |-> StrV("DexName"), symbol |-> StrV("DEX")]]
    /\ Sent /\ Resp.status = 200
    /\ Resp.body.facts.name = StrV("Token")
    /\ Resp.body.facts.symbol = StrV("DEX")

----------------------------------------------------------------------------
(* C18 *)

\* C18: normalisation lower-cases the chain key (default "base") and only
\* trims token and center, keeping their case: the center that /graph checks
\* and passes to the graph builders is the trimmed raw value, and a center that
\* satisfies the address predicate as submitted is never answered "Bad Sol
\* address".
C18_CenterOnlyTrimmed ==
    (route # "none") =>
        /\ chainKey = toLowerCase(StringOr(query.chain, base))
        /\ token = GivenToken
        /\ (route = "/graph") =>
              /\ center = GivenCenter
              /\ \A i \in 1..Len(calls) :
                    "center" \in DOMAIN calls[i].args => calls[i].args.center = GivenCenter
              /\ looksLikeSolAddress(GivenCenter) =>
                    ~(Sent /\ Resp.body = [ok |-> FALSE, error |-> "Bad Sol address"])

----------------------------------------------------------------------------
(* C19 *)

\* C19: a request sends exactly one response, on every path: none while a
\* collaborator is awaited, one when the handler has finished, never two; and
\* as long as every awaited collaborator settles, the request reaches its
\* response.
C19_ExactlyOneResponse ==
    /\ [](/\ Len(responses) <= 1
          /\ Done => Len(responses) = 1
          /\ pc \notin {"idle", "done"} => responses = <<>>)
    /\ (pc # "idle") ~> (Done /\ Len(responses) = 1)

\* the catch of a handler has sent the one response of its request
C19_Witness ==
    /\ Done /\ Len(responses) = 1 /\ Resp.status = 500
    /\ Failed("analyzeSolMint")

----------------------------------------------------------------------------
(* C20 *)

\* the outcome of the call of fn in the call log cs
OutcomeIn(cs, fn) ==
    IF \E i \in 1..Len(cs) : cs[i].fn = fn
    THEN cs[CHOOSE i \in 1..Len(cs) : cs[i].fn = fn].out
    ELSE [status |-> "none"]

Answer(status, body) == [status |-> status, body |-> body]

\* what /analyze answers to the query q when its collaborators give the
\* outcomes of cs and no other request is served
AloneAnalyze(q, cs) ==
    LET ck == toLowerCase(StringOr(q.chain, base))
        tk == trim(StringOr(q.token, <<>>))
        isFast == StringOr(q.fast, <<>>) = <<"1">>
        read == OutcomeIn(cs, "readErc20Meta")
        pairs == OutcomeIn(cs, "getDexScreenerPairs")
        top == OutcomeIn(cs, "approxTopHoldersPct")
        src == OutcomeIn(cs, "getContractSource")
        sol == OutcomeIn(cs, "analyzeSolMint")
        m == IF pairs.status = "returned" THEN Enriched(read.value, pairs.value) ELSE read.value
        known == src.status = "returned" /\ src.value # UndefinedV
    IN IF ck \notin ChainKeys THEN Answer(400, [ok |-> FALSE, error |-> "Unknown chain"])
       ELSE IF tk = <<>> THEN Answer(400, [ok |-> FALSE, error |-> "Missing token/mint"])
       ELSE IF getChains[ck].kind = "evm"
       THEN IF read.status = "threw"
            THEN Answer(500, [ok |-> FALSE,
                              error |-> IF read.message # "" THEN read.message ELSE "Analyze failed"])
            ELSE Answer(200,
                   [ok |-> TRUE,
                    facts |-> Json([chain |-> StrV(ck), token |-> StrV(tk),
                                    name |-> m.name, symbol |-> m.symbol,
                                    decimals |-> m.decimals, totalSupply |-> m.totalSupply,
                                    owner |-> m.owner, ownerRenounced |-> m.ownerRenounced,
                                    lp |-> [locked |-> Null, locker |-> Null, unlockDate |-> Null],
                                    holders |-> [top10Pct |->
                                        IF top.status = "returned" THEN top.value ELSE Null]]),
                    contractVerified |-> IF known THEN src.value.verified ELSE Null,
                    explorerOwner |-> IF known THEN src.value.owner ELSE Null,
                    explorer |-> getChains[ck].explorer \o <<"/token/">> \o tk,
                    mode |-> IF isFast THEN "fast" ELSE "standard",
                    windowBlocks |-> blocksOf(q), span |-> spanOf(q), delay |-> delayOf(q)])
       ELSE IF getChains[ck].kind = "solana"
       THEN IF sol.status = "threw"
            THEN Answer(500, [ok |-> FALSE,
                              error |-> IF sol.message # "" THEN sol.message ELSE "Analyze failed"])
            ELSE Answer(200, sol.value)
       ELSE Answer(400, [ok |-> FALSE, error |-> "Unsupported chain kind"])

\* the same for /graph
AloneGraph(q, cs) ==
    LET ck == toLowerCase(StringOr(q.chain, base))
        tk == trim(StringOr(q.token, <<>>))
        ce == toLowerCase(trim(StringOr(q.center, <<>>)))
        read == OutcomeIn(cs, "readErc20Meta")
        built == OutcomeIn(cs, "buildEvmGraph")
        sol == OutcomeIn(cs, "buildSolGraph")
        window == [windowBlocks |-> blocksOf(q), span |-> spanOf(q), delay |-> delayOf(q)]
    IN IF ck \notin ChainKeys THEN Answer(400, [ok |-> FALSE, error |-> "Unknown chain"])
       ELSE IF tk = <<>> \/ ce = <<>>
       THEN Answer(400, [ok |-> FALSE, error |-> "Missing token/center"])
       ELSE IF getChains[ck].kind = "evm"
       THEN IF read.status = "threw"
            THEN Answer(500, [ok |-> FALSE,
                              error |-> IF read.message # "" THEN read.message ELSE "Graph failed"])
            ELSE Answer(200,
                   Spread(Spread([ok |-> TRUE],
                                 IF built.status = "returned" THEN built.value
                                 ELSE [fromBlock |-> Null, toBlock |-> Null,
                                       nodes |-> <<>>, links |-> <<>>]),
                          window))
       ELSE IF getChains[ck].kind = "solana"
       THEN IF ~looksLikeSolAddress(ce)
            THEN Answer(400, [ok |-> FALSE, error |-> "Bad Sol address"])
            ELSE IF sol.status = "threw"
            THEN Answer(500, [ok |-> FALSE,
                              error |-> IF sol.message # "" THEN sol.message ELSE "Graph failed"])
            ELSE Answer(200, Spread([ok |-> TRUE], sol.value))
       ELSE Answer(400, [ok |-> FALSE, error |-> "Unsupported chain kind"])

\* the same for /jeeter
AloneJeeter(q, cs) ==
    LET ck == toLowerCase(StringOr(q.chain, base))
        read == OutcomeIn(cs, "readErc20Meta")
        report == OutcomeIn(cs, "jeeterReport")
        window == [windowBlocks |-> blocksOf(q), span |-> spanOf(q), delay |-> delayOf(q)]
    IN IF ck \notin ChainKeys \/ getChains[ck].kind # "evm"
       THEN Answer(400, [ok |-> FALSE, error |-> "EVM only"])
       ELSE IF read.status = "threw"
       THEN Answer(500, [ok |-> FALSE,
                         error |-> IF read.message # "" THEN read.message ELSE "Jeeter failed"])
       ELSE Answer(200,
              Spread(Spread([ok |-> TRUE],
                            IF report.status = "returned" THEN report.value
                            ELSE [priceNow |-> Null, fromBlock |-> Null, toBlock |-> Null,
                                  jeeters |-> <<>>]),
                     window))

\* the answer to the request of context c, had it been served alone with the
\* collaborator results it got
Alone(c) ==
    IF c.route = "/analyze" THEN AloneAnalyze(c.query, c.calls)
    ELSE IF c.route = "/graph" THEN AloneGraph(c.query, c.calls)
    ELSE AloneJeeter(c.query, c.calls)

InFlight(c) == c.pc \notin {"idle", "done"}

\* C20: with two requests in flight and their awaited steps interleaved in any
\* order, each finished request has sent the status and body it would have
\* sent alone with the same collaborator results, and a request that is
\* suspended has sent nothing.
C20_NoInterference ==
    \A c \in {Context, other} :
        /\ c.pc = "done" => c.responses = <<Alone(c)>>
        /\ InFlight(c) => c.responses = <<>>

\* an /analyze request whose enrichment ran was answered while another
\* request, begun before it finished, is still awaiting a collaborator
C20_Witness ==
    /\ Done /\ route = "/analyze" /\ Succeeded("getDexScreenerPairs")
    /\ Sent /\ Resp.status = 200
    /\ InFlight(other) /\ other.route = "/analyze"
    /\ Len(other.calls) >= 2

====
